---------------------------- MODULE Spec2Model ----------------------------
(***************************************************************************)
(* Store Inventory tool (src/app.py): the csv import, the reconciliation   *)
(* of duplicates by date, the interactive add and the csv backup, over a   *)
(* database file that outlives the process.                                *)
(*                                                                         *)
(* Texts are sequences of one-character strings.  Python floats are IEEE   *)
(* doubles: a significand of 53 bits and the exponent of its leading bit.  *)
(***************************************************************************)
EXTENDS Integers, Sequences, FiniteSets, TLC

---------------------------------------------------------------------------
(* Characters and texts *)

DigitChars == <<"0", "1", "2", "3", "4", "5", "6", "7", "8", "9">>

IsDigit(c) == \E i \in 1..10 : DigitChars[i] = c

DigitVal(c) == (CHOOSE i \in 1..10 : DigitChars[i] = c) - 1

AllDigits(s) == \A i \in 1..Len(s) : IsDigit(s[i])

\* str.strip(): leading and trailing blanks removed
RECURSIVE Strip(_)
Strip(s) ==
    IF s = <<>> THEN s
    ELSE IF s[1] = " " THEN Strip(Tail(s))
    ELSE IF s[Len(s)] = " " THEN Strip(SubSeq(s, 1, Len(s) - 1))
    ELSE s

\* value of a run of decimal digits
RECURSIVE DigitsToNat(_)
DigitsToNat(s) ==
    IF s = <<>> THEN 0
    ELSE 10 * DigitsToNat(SubSeq(s, 1, Len(s) - 1)) + DigitVal(s[Len(s)])

\* decimal digits of a natural number, no leading zeros ("0" for 0)
RECURSIVE NatToDigits(_)
NatToDigits(n) ==
    IF n < 10 THEN <<DigitChars[n + 1]>>
    ELSE Append(NatToDigits(n \div 10), DigitChars[(n % 10) + 1])

RECURSIVE Pow10(_)
Pow10(k) == IF k = 0 THEN 1 ELSE 10 * Pow10(k - 1)

\* index of the first "." of s, 0 when there is none
DotIndex(s) ==
    IF \E i \in 1..Len(s) : s[i] = "."
    THEN CHOOSE i \in 1..Len(s) : s[i] = "." /\ \A j \in 1..(i - 1) : s[j] # "."
    ELSE 0

---------------------------------------------------------------------------
(* IEEE double arithmetic.  A significand or an intermediate result is an  *)
(* unbounded natural number held as a sequence of limbs, the least          *)
(* significant first, each below Base.                                      *)

Precision == 53

LimbBits == 15

Base == 2 ^ LimbBits

\* limbs of a natural number below 2^31
BigOfNat(n) ==
    IF n = 0 THEN <<>>
    ELSE IF n < Base THEN <<n>>
    ELSE IF n < Base * Base THEN <<n % Base, n \div Base>>
    ELSE <<n % Base, (n \div Base) % Base, n \div (Base * Base)>>

\* zero limbs at the significant end dropped
RECURSIVE Normalize(_)
Normalize(b) ==
    IF b # <<>> /\ b[Len(b)] = 0 THEN Normalize(SubSeq(b, 1, Len(b) - 1)) ELSE b

\* the limbs from i on of b * c + carry, c and carry below Base
RECURSIVE MulFrom(_, _, _, _)
MulFrom(b, c, i, carry) ==
    IF i > Len(b) THEN BigOfNat(carry)
    ELSE LET t == b[i] * c + carry
         IN  <<t % Base>> \o MulFrom(b, c, i + 1, t \div Base)

BigMulSmall(b, c) == MulFrom(b, c, 1, 0)

BigAddSmall(b, c) == MulFrom(b, 1, 1, c)

\* quotient and remainder of (r * Base^i + the i low limbs of b) by d, d below Base
RECURSIVE DivFrom(_, _, _, _)
DivFrom(b, d, i, r) ==
    IF i = 0 THEN [q |-> <<>>, r |-> r]
    ELSE LET t    == r * Base + b[i]
             rest == DivFrom(b, d, i - 1, t % d)
         IN  [q |-> Append(rest.q, t \div d), r |-> rest.r]

BigDivSmall(b, d) ==
    LET dv == DivFrom(b, d, Len(b), 0) IN [q |-> Normalize(dv.q), r |-> dv.r]

\* number of bits of b, b normalized and not zero
BitLength(b) ==
    LimbBits * (Len(b) - 1)
        + (CHOOSE k \in 1..LimbBits : 2 ^ (k - 1) <= b[Len(b)] /\ b[Len(b)] < 2 ^ k)

\* b * 2^k
ShiftLeft(b, k) ==
    [i \in 1..(k \div LimbBits) |-> 0] \o BigMulSmall(b, 2 ^ (k % LimbBits))

\* b \div 2^k, and whether a one bit was shifted out
ShiftRight(b, k) ==
    LET n  == k \div LimbBits
        dv == BigDivSmall(SubSeq(b, n + 1, Len(b)), 2 ^ (k % LimbBits))
    IN  [q |-> dv.q,
         sticky |-> dv.r # 0 \/ \E i \in 1..n : i <= Len(b) /\ b[i] # 0]

\* value of a number of at most two limbs
BigToNat(b) ==
    IF b = <<>> THEN 0 ELSE IF Len(b) = 1 THEN b[1] ELSE b[1] + Base * b[2]

\* The double nearest to b * 2^x, ties to the even significand: b has more
\* than Precision bits, and sticky tells that the exact value lies above
\* b * 2^x.  A double is its significand m of Precision bits and the exponent
\* e of m's leading bit: m * 2^(e - Precision + 1).
RoundNearestEven(b, sticky, x) ==
    LET len   == BitLength(b)
        sh    == ShiftRight(b, len - (Precision + 1))
        half  == BigDivSmall(sh.q, 2)
        up    == half.r = 1 /\ (sticky \/ sh.sticky \/ half.q[1] % 2 = 1)
        m     == IF up THEN BigAddSmall(half.q, 1) ELSE half.q
    IN  IF BitLength(m) = Precision THEN [m |-> m, e |-> x + len - 1]
        ELSE [m |-> ShiftRight(m, 1).q, e |-> x + len]

\* the double nearest to n/d, for 0 < n < 2^31 and 0 < d < Base
DoubleOfRatio(n, d) ==
    LET dv == BigDivSmall(ShiftLeft(BigOfNat(n), 5 * LimbBits), d)
    IN  RoundNearestEven(dv.q, dv.r # 0, 0 - 5 * LimbBits)

\* x * c for a double x and a natural 1 < c < Base, rounded
DoubleTimes(x, c) ==
    RoundNearestEven(BigMulSmall(x.m, c), FALSE, x.e - (Precision - 1))

\* int(x) for a double 0 < x < 2^30: the fraction dropped
DoubleToInt(x) ==
    IF x.e < 0 THEN 0 ELSE BigToNat(ShiftRight(x.m, (Precision - 1) - x.e).q)

---------------------------------------------------------------------------
(* Conversions of _convert_csv and _get_product_info *)

NoMatch == <<>>

\* re.search(r"\d+.?\d{0,2}", t).group(): the leftmost run of digits, taken
\* whole, then any one character if there is one (the "." of the pattern is
\* not escaped), then up to two digits.  NoMatch when t has no digit.
PriceMatch(t) ==
    IF ~\E i \in 1..Len(t) : IsDigit(t[i]) THEN NoMatch
    ELSE LET i == CHOOSE k \in 1..Len(t) :
                      IsDigit(t[k]) /\ \A h \in 1..(k - 1) : ~IsDigit(t[h])
             j == CHOOSE k \in i..Len(t) :
                      /\ \A h \in i..k : IsDigit(t[h])
                      /\ (k = Len(t) \/ ~IsDigit(t[k + 1]))
             a == IF j < Len(t) THEN j + 1 ELSE j
             b == IF a + 1 <= Len(t) /\ a > j /\ IsDigit(t[a + 1]) THEN a + 1 ELSE a
             c == IF b + 1 <= Len(t) /\ b > a /\ IsDigit(t[b + 1]) THEN b + 1 ELSE b
         IN  SubSeq(t, i, c)

\* float(s) as far as its grammar goes for texts without exponent, underscore,
\* "inf" or "nan": blanks stripped, an optional sign, digits with at most one
\* "." and at least one digit.  num / 10^scale is the decimal value read.
FloatSyntax(s) ==
    LET t    == Strip(s)
        neg  == t # <<>> /\ t[1] = "-"
        u    == IF t # <<>> /\ t[1] \in {"-", "+"} THEN Tail(t) ELSE t
        dot  == DotIndex(u)
        ip   == IF dot = 0 THEN u ELSE SubSeq(u, 1, dot - 1)
        fp   == IF dot = 0 THEN <<>> ELSE SubSeq(u, dot + 1, Len(u))
    IN  IF AllDigits(ip) /\ AllDigits(fp) /\ Len(ip) + Len(fp) > 0
        THEN [ok |-> TRUE, neg |-> neg, num |-> DigitsToNat(ip \o fp),
              scale |-> Len(fp)]
        ELSE [ok |-> FALSE, neg |-> FALSE, num |-> 0, scale |-> 0]

\* int(float(s) * 100) for a text float() accepts: the decimal is rounded to
\* the nearest double, the product is rounded again and int() drops the
\* fraction (towards zero)
IntOfFloatTimes100(f) ==
    LET mag == IF f.num = 0 THEN 0
               ELSE DoubleToInt(DoubleTimes(DoubleOfRatio(f.num, Pow10(f.scale)), 100))
    IN  IF f.neg THEN 0 - mag ELSE mag

\* int(s): blanks stripped, an optional sign, digits only
IntSyntax(s) ==
    LET t   == Strip(s)
        neg == t # <<>> /\ t[1] = "-"
        u   == IF t # <<>> /\ t[1] \in {"-", "+"} THEN Tail(t) ELSE t
    IN  IF u # <<>> /\ AllDigits(u)
        THEN [ok |-> TRUE, val |-> IF neg THEN 0 - DigitsToNat(u) ELSE DigitsToNat(u)]
        ELSE [ok |-> FALSE, val |-> 0]

\* the fields of s between "/" characters
RECURSIVE SplitSlash(_, _)
SplitSlash(s, cur) ==
    IF s = <<>> THEN <<cur>>
    ELSE IF s[1] = "/" THEN <<cur>> \o SplitSlash(Tail(s), <<>>)
    ELSE SplitSlash(Tail(s), Append(cur, s[1]))

IsLeap(y) == (y % 4 = 0 /\ y % 100 # 0) \/ y % 400 = 0

DaysInMonth(y, m) ==
    IF m = 2 THEN (IF IsLeap(y) THEN 29 ELSE 28)
    ELSE IF m \in {4, 6, 9, 11} THEN 30 ELSE 31

\* datetime.strptime(s, "%m/%d/%Y").date(): month and day of one or two
\* digits, a year of four, a day that exists.  A date is <<year, month, day>>.
StrpDate(s) ==
    LET f  == SplitSlash(s, <<>>)
        ok == /\ Len(f) = 3
              /\ Len(f[1]) \in {1, 2} /\ AllDigits(f[1])
              /\ Len(f[2]) \in {1, 2} /\ AllDigits(f[2])
              /\ Len(f[3]) = 4 /\ AllDigits(f[3])
              /\ DigitsToNat(f[3]) >= 1
              /\ DigitsToNat(f[1]) \in 1..12
              /\ DigitsToNat(f[2]) \in 1..DaysInMonth(DigitsToNat(f[3]), DigitsToNat(f[1]))
    IN  IF ok THEN [ok |-> TRUE,
                    val |-> <<DigitsToNat(f[3]), DigitsToNat(f[1]), DigitsToNat(f[2])>>]
        ELSE [ok |-> FALSE, val |-> <<>>]

\* date < date
DateLess(a, b) ==
    \/ a[1] < b[1]
    \/ a[1] = b[1] /\ a[2] < b[2]
    \/ a[1] = b[1] /\ a[2] = b[2] /\ a[3] < b[3]

---------------------------------------------------------------------------
(* Conversions of _convert_db *)

TwoDigits(n) == IF n < 10 THEN <<"0">> \o NatToDigits(n) ELSE NatToDigits(n)

\* f"${p/100}": the shortest decimal that reads back as the double p/100,
\* which for amounts of this size is the amount with at least one and at most
\* two decimals, trailing zero dropped
FormatPrice(p) ==
    LET a    == IF p < 0 THEN 0 - p ELSE p
        c    == a % 100
        frac == IF c % 10 = 0 THEN NatToDigits(c \div 10) ELSE TwoDigits(c)
    IN  <<"$">> \o (IF p < 0 THEN <<"-">> ELSE <<>>)
              \o NatToDigits(a \div 100) \o <<".">> \o frac

\* str(q)
FormatInt(q) ==
    IF q < 0 THEN <<"-">> \o NatToDigits(0 - q) ELSE NatToDigits(q)

\* strftime(d, "%m/%d/%Y")
FormatDate(d) ==
    TwoDigits(d[2]) \o <<"/">> \o TwoDigits(d[3]) \o <<"/">> \o NatToDigits(d[1])

---------------------------------------------------------------------------
(* Inputs *)

MaxRows == 2      \* rows of one inventory.csv
MaxAdds == 1      \* products entered at the "A" menu entry
MaxLen  == 4      \* length of a price text of PriceSpec

Names == {"a", "b"}

PriceLossy  == <<"$", "1", ".", "1", "6">>
PriceEach   == <<"$", "1", "2", ".", "5", "0", " ", "e", "a", "c", "h">>
PriceFree   == <<"f", "r", "e", "e">>
QtyFive     == <<"5">>
QtyMinus    == <<"-", "3">>
QtyBad      == <<"x">>
DateDec2023 == <<"1", "2", "/", "0", "1", "/", "2", "0", "2", "3">>
DateJan2024 == <<"1", "/", "3", "1", "/", "2", "0", "2", "4">>
DateFeb31   == <<"2", "/", "3", "1", "/", "2", "0", "2", "4">>

TextRow(n, p, q, d) ==
    [kind |-> "text", product_name |-> n, product_price |-> p,
     product_quantity |-> q, date_updated |-> d]

\* rows an inventory.csv may hold: name "a" on both dates with either pair
\* of price and quantity cells, name "b" once, and a row for each cell that
\* does not convert
CsvRows ==
    {TextRow("a", pq[1], pq[2], d) :
        pq \in {<<PriceLossy, QtyFive>>, <<PriceEach, QtyMinus>>},
        d \in {DateDec2023, DateJan2024}}
    \cup {TextRow("b", PriceLossy, QtyFive, DateJan2024),
          TextRow("b", PriceFree, QtyFive, DateJan2024),
          TextRow("b", PriceLossy, QtyBad, DateJan2024),
          TextRow("b", PriceLossy, QtyFive, DateFeb31)}

RECURSIVE SeqsUpTo(_, _)
SeqsUpTo(S, n) ==
    IF n = 0 THEN {<<>>}
    ELSE LET shorter == SeqsUpTo(S, n - 1)
         IN  shorter \cup {Append(s, x) : s \in shorter, x \in S}

CsvFiles == SeqsUpTo(CsvRows, MaxRows)

\* what is typed at the prompts of _get_product_info: quantity and price
Typed == {<<<<"7">>, <<"1", ".", "1", "6">>>>, <<QtyMinus, <<"-", "1">>>>, <<QtyBad, PriceFree>>}
Today == {<<2023, 12, 1>>, <<2024, 1, 31>>}

\* price texts of PriceSpec
Alphabet == {"$", "1", "6", ".", " ", "x"}
PriceTexts == SeqsUpTo(Alphabet, MaxLen)

---------------------------------------------------------------------------
(* State *)

VARIABLES
    pc,        \* "start": no process; "convert", "save": inside go(); "menu"
    db,        \* the rows of table Product in inventory.db, in rowid order
    products,  \* Inventory.products
    backup,    \* backup.csv
    csv,       \* inventory.csv
    adds,      \* products entered so far
    maxdate,   \* history: per name, the latest date_updated handed to save()
    last       \* history: the last handler that ran, what it was given and
               \* the table before it

vars == <<pc, db, products, backup, csv, adds, maxdate, last>>

NoDate == <<>>

NoLast == [op |-> "none", rows |-> <<>>, pre |-> <<>>, error |-> ""]

Init ==
    /\ pc = "start"
    /\ db = <<>>
    /\ products = <<>>
    /\ backup = [exists |-> FALSE, rows |-> <<>>]
    /\ csv \in CsvFiles
    /\ adds = 0
    /\ maxdate = [n \in Names |-> NoDate]
    /\ last = NoLast

---------------------------------------------------------------------------
(* Table Product *)

\* product_name declared without unique=True: no INSERT raises
IntegrityErrorNever(table, name) == FALSE

\* unique=True on product_name: an INSERT of a name the table holds raises
IntegrityError(table, name) ==
    \E i \in 1..Len(table) : table[i].product_name = name

\* the rowid SQLite gives the next INSERT: one more than the largest
NextId(table) ==
    IF table = <<>> THEN 1
    ELSE 1 + (CHOOSE m \in {table[i].product_id : i \in 1..Len(table)} :
                 \A i \in 1..Len(table) : table[i].product_id <= m)

\* new.save() of an instance without product_id: INSERT
Insert(table, new) ==
    Append(table, [product_id |-> NextId(table),
                   product_name |-> new.product_name,
                   product_quantity |-> new.product_quantity,
                   product_price |-> new.product_price,
                   date_updated |-> new.date_updated])

\* Product.get(Product.product_name == name): index of the row
GetByName(table, name) ==
    CHOOSE i \in 1..Len(table) : table[i].product_name = name

\* the stored row with the values of new
Overwritten(existing, new) ==
    [existing EXCEPT !.product_quantity = new.product_quantity,
                     !.product_price = new.product_price,
                     !.date_updated = new.date_updated]

\* _update_latest without the comparison of dates
UpdateLatestAlways(table, new) ==
    LET i == GetByName(table, new.product_name)
    IN  [table EXCEPT ![i] = Overwritten(table[i], new)]

\* _update_latest with the comparison turned round
UpdateLatestReversed(table, new) ==
    LET i == GetByName(table, new.product_name)
    IN  IF DateLess(new.date_updated, table[i].date_updated)
        THEN [table EXCEPT ![i] = Overwritten(table[i], new)]
        ELSE table

\* _update_latest with <= for <
UpdateLatestOrEqual(table, new) ==
    LET i == GetByName(table, new.product_name)
    IN  IF ~DateLess(new.date_updated, table[i].date_updated)
        THEN [table EXCEPT ![i] = Overwritten(table[i], new)]
        ELSE table

\* _update_latest deleting the stored row and saving new in its place
UpdateLatestReinsert(table, new) ==
    LET i == GetByName(table, new.product_name)
    IN  IF DateLess(table[i].date_updated, new.date_updated)
        THEN Insert([j \in 1..(Len(table) - 1) |->
                        IF j < i THEN table[j] ELSE table[j + 1]], new)
        ELSE table

\* _update_latest: the stored row takes the new values when its date is
\* earlier than the new one; existing.save() is an UPDATE by product_id
UpdateLatest(table, new) ==
    LET i        == GetByName(table, new.product_name)
        existing == table[i]
    IN  IF DateLess(existing.date_updated, new.date_updated)
        THEN [j \in 1..Len(table) |->
                 IF table[j].product_id = existing.product_id
                 THEN Overwritten(existing, new)
                 ELSE table[j]]
        ELSE table

\* try: new.save()  except IntegrityError: self._update_latest(new)
SaveOrUpdate(table, new) ==
    IF IntegrityError(table, new.product_name) THEN UpdateLatest(table, new)
    ELSE Insert(table, new)

---------------------------------------------------------------------------
(* go(): _load_csv, _convert_csv, _save_csv *)

\* the exception the conversion of one csv row raises, "" when it converts:
\* price first, then quantity, then date
RowError(r) ==
    LET m == PriceMatch(r.product_price)
    IN  IF m = NoMatch THEN "AttributeError"
        ELSE IF ~FloatSyntax(m).ok THEN "ValueError"
        ELSE IF ~IntSyntax(r.product_quantity).ok THEN "ValueError"
        ELSE IF ~StrpDate(r.date_updated).ok THEN "ValueError"
        ELSE ""

\* one csv row with its cells converted in place
ConvertRow(r) ==
    [kind |-> "typed",
     product_name |-> r.product_name,
     product_price |-> IntOfFloatTimes100(FloatSyntax(PriceMatch(r.product_price))),
     product_quantity |-> IntSyntax(r.product_quantity).val,
     date_updated |-> StrpDate(r.date_updated).val]

\* the program is launched: _init_db keeps the table of an earlier run and
\* _load_csv reads inventory.csv
LoadCsv ==
    /\ pc = "start"
    /\ products' = csv
    /\ last' = [NoLast EXCEPT !.op = "load_csv"]
    /\ pc' = "convert"
    /\ UNCHANGED <<db, backup, csv, adds, maxdate>>

\* between two runs backup.csv is put in the place of inventory.csv
RestoreBackup ==
    /\ pc = "start"
    /\ backup.exists
    /\ csv' = backup.rows
    /\ UNCHANGED <<pc, db, products, backup, adds, maxdate, last>>

\* _convert_csv: the first row that does not convert raises out of go() and
\* ends the process, before _save_csv has run
ConvertCsv ==
    /\ pc = "convert"
    /\ \/ /\ \A i \in 1..Len(products) : RowError(products[i]) = ""
          /\ products' = [i \in 1..Len(products) |-> ConvertRow(products[i])]
          /\ pc' = "save"
          /\ last' = last
       \/ /\ \E i \in 1..Len(products) : RowError(products[i]) # ""
          /\ LET i == CHOOSE k \in 1..Len(products) :
                          /\ RowError(products[k]) # ""
                          /\ \A h \in 1..(k - 1) : RowError(products[h]) = ""
             IN  last' = [NoLast EXCEPT !.op = "convert_csv",
                                        !.error = RowError(products[i])]
          /\ products' = <<>>
          /\ pc' = "start"
    /\ UNCHANGED <<db, backup, csv, adds, maxdate>>

\* the loop of _save_csv over rows
RECURSIVE SaveRows(_, _)
SaveRows(table, rows) ==
    IF rows = <<>> THEN table
    ELSE SaveRows(SaveOrUpdate(table, Head(rows)), Tail(rows))

LaterDate(a, b) == IF a = NoDate \/ DateLess(a, b) THEN b ELSE a

RECURSIVE Submitted(_, _)
Submitted(md, rows) ==
    IF rows = <<>> THEN md
    ELSE Submitted(
             [md EXCEPT ![Head(rows).product_name] =
                            LaterDate(@, Head(rows).date_updated)],
             Tail(rows))

\* _save_csv
SaveCsv ==
    /\ pc = "save"
    /\ db' = SaveRows(db, products)
    /\ products' = <<>>
    /\ maxdate' = Submitted(maxdate, products)
    /\ last' = [last EXCEPT !.op = "save_csv", !.rows = products, !.pre = db]
    /\ pc' = "menu"
    /\ UNCHANGED <<backup, csv, adds>>

---------------------------------------------------------------------------
(* The menu *)

\* "V": _view_product reads one row by product_id and prints it
ViewProduct ==
    /\ pc = "menu"
    /\ \E id \in 1..(Len(db) + 1) :
          \/ \E i \in 1..Len(db) : db[i].product_id = id
          \/ \A i \in 1..Len(db) : db[i].product_id # id
    /\ UNCHANGED vars

\* "A": _add_product.  _get_product_info asks again until int() and float()
\* accept what is typed, the date is today's, and _save_product runs when
\* the entry is confirmed
AddProduct ==
    /\ pc = "menu"
    /\ adds < MaxAdds
    /\ \E n \in Names, t \in Typed, today \in Today :
          /\ IntSyntax(t[1]).ok
          /\ FloatSyntax(t[2]).ok
          /\ LET new == [kind |-> "typed",
                         product_name |-> n,
                         product_quantity |-> IntSyntax(t[1]).val,
                         product_price |-> IntOfFloatTimes100(FloatSyntax(t[2])),
                         date_updated |-> today]
             IN  /\ db' = SaveOrUpdate(db, new)
                 /\ maxdate' = Submitted(maxdate, <<new>>)
                 /\ last' = [NoLast EXCEPT !.op = "save_product",
                                           !.rows = <<new>>, !.pre = db]
    /\ adds' = adds + 1
    /\ UNCHANGED <<pc, products, backup, csv>>

\* "A" left with "Q" at a prompt or "N" at the confirmation
AddCancelled ==
    /\ pc = "menu"
    /\ UNCHANGED vars

\* _load_db: the table's rows appended to Inventory.products
LoadDb(list, table) ==
    list \o [i \in 1..Len(table) |->
                [kind |-> "typed",
                 product_name |-> table[i].product_name,
                 product_quantity |-> table[i].product_quantity,
                 product_price |-> table[i].product_price,
                 date_updated |-> table[i].date_updated]]

\* _convert_db on one row
ExportRow(r) ==
    TextRow(r.product_name, FormatPrice(r.product_price),
            FormatInt(r.product_quantity), FormatDate(r.date_updated))

\* "B": _backup.  _save_db leaves Inventory.products as it is, so a later
\* _backup finds the texts of the earlier one in front of the table's rows,
\* and _convert_db raises TypeError dividing a text by 100, before backup.csv
\* is opened
Backup ==
    /\ pc = "menu"
    /\ LET loaded == LoadDb(products, db)
       IN  \/ /\ \A i \in 1..Len(loaded) : loaded[i].kind = "typed"
              /\ products' = [i \in 1..Len(loaded) |-> ExportRow(loaded[i])]
              /\ backup' = [exists |-> TRUE, rows |-> products']
              /\ last' = [NoLast EXCEPT !.op = "backup", !.pre = db]
              /\ pc' = "menu"
           \/ /\ \E i \in 1..Len(loaded) : loaded[i].kind = "text"
              /\ products' = <<>>
              /\ backup' = backup
              /\ last' = [NoLast EXCEPT !.op = "backup", !.pre = db,
                                        !.error = "TypeError"]
              /\ pc' = "start"
    /\ UNCHANGED <<db, csv, adds, maxdate>>

\* "Q": _quit
Quit ==
    /\ pc = "menu"
    /\ pc' = "start"
    /\ products' = <<>>
    /\ last' = NoLast
    /\ UNCHANGED <<db, backup, csv, adds, maxdate>>

Next ==
    \/ LoadCsv
    \/ RestoreBackup
    \/ ConvertCsv
    \/ SaveCsv
    \/ ViewProduct
    \/ AddProduct
    \/ AddCancelled
    \/ Backup
    \/ Quit

Spec == Init /\ [][Next]_vars

---------------------------------------------------------------------------
(* Conversion of one price cell on its own *)

PriceInit ==
    /\ pc = "convert"
    /\ db = <<>>
    /\ \E t \in PriceTexts :
          /\ csv = <<TextRow("a", t, QtyFive, DateJan2024)>>
          /\ products = csv
    /\ backup = [exists |-> FALSE, rows |-> <<>>]
    /\ adds = 0
    /\ maxdate = [n \in Names |-> NoDate]
    /\ last = [NoLast EXCEPT !.op = "load_csv"]

PriceNext == ConvertCsv

PriceSpec == PriceInit /\ [][PriceNext]_vars

---------------------------------------------------------------------------
(* Properties *)

Saved == last.op \in {"save_csv", "save_product"}

Held(table, name) == \E i \in 1..Len(table) : table[i].product_name = name

RowOf(table, name) == table[CHOOSE i \in 1..Len(table) : table[i].product_name = name]

Earlier(a, b) ==
    a[1] < b[1] \/ (a[1] = b[1] /\ (a[2] < b[2] \/ (a[2] = b[2] /\ a[3] < b[3])))

SameValues(rec, cand) ==
    /\ rec.product_quantity = cand.product_quantity
    /\ rec.product_price = cand.product_price
    /\ rec.date_updated = cand.date_updated

\* C1: the table never holds two rows with the same product_name, whatever
\* rows were imported and whatever was added, repeated names included.
C1_OneRecordPerName ==
    \A i, j \in 1..Len(db) : i # j => db[i].product_name # db[j].product_name

C1_Witness ==
    /\ last.op = "save_csv"
    /\ Len(last.rows) = 2
    /\ last.rows[1].product_name = last.rows[2].product_name
    /\ Held(last.pre, last.rows[1].product_name)
    /\ Len(db) = 2

\* C2: for every name, the stored date_updated is the latest of all dates
\* submitted for that name, by import rows and by adds.
C2_DateIsLatestSubmitted ==
    \A n \in Names :
        IF maxdate[n] = NoDate THEN ~Held(db, n)
        ELSE Held(db, n) /\ RowOf(db, n).date_updated = maxdate[n]

C2_Witness ==
    /\ Saved
    /\ \E i \in 1..Len(last.rows) :
          /\ Held(last.pre, last.rows[i].product_name)
          /\ Earlier(last.rows[i].date_updated,
                     RowOf(last.pre, last.rows[i].product_name).date_updated)

\* C3: a csv of two rows A and B for one name the table does not hold yet,
\* with different dates, leaves one row for the name with the quantity, price
\* and date of the later of the two, in whichever order they stand.
C3_LaterOfTwoWins ==
    (/\ last.op = "save_csv"
     /\ Len(last.rows) = 2
     /\ last.rows[1].product_name = last.rows[2].product_name
     /\ ~Held(last.pre, last.rows[1].product_name)
     /\ last.rows[1].date_updated # last.rows[2].date_updated)
    => LET n == last.rows[1].product_name
           B == IF Earlier(last.rows[1].date_updated, last.rows[2].date_updated)
                THEN last.rows[2] ELSE last.rows[1]
       IN  /\ Cardinality({i \in 1..Len(db) : db[i].product_name = n}) = 1
           /\ SameValues(RowOf(db, n), B)

C3_Witness ==
    /\ last.op = "save_csv"
    /\ Len(last.rows) = 2
    /\ last.rows[1].product_name = last.rows[2].product_name
    /\ ~Held(last.pre, last.rows[1].product_name)
    /\ Earlier(last.rows[2].date_updated, last.rows[1].date_updated)
    /\ last.rows[1].product_quantity # last.rows[2].product_quantity

NotNewer(table, cand) ==
    /\ Held(table, cand.product_name)
    /\ ~Earlier(RowOf(table, cand.product_name).date_updated, cand.date_updated)

\* C4: when every candidate handed to save() has a name the table holds and
\* a date not later than the stored one, the table is left as it was; and a
\* csv holding the same new row twice adds it once.
C4_NotNewerLeavesTable ==
    /\ (Saved /\ \A i \in 1..Len(last.rows) : NotNewer(last.pre, last.rows[i]))
          => db = last.pre
    /\ (/\ last.op = "save_csv"
        /\ Len(last.rows) = 2
        /\ last.rows[1] = last.rows[2]
        /\ ~Held(last.pre, last.rows[1].product_name))
          => /\ Len(db) = Len(last.pre) + 1
             /\ SubSeq(db, 1, Len(last.pre)) = last.pre
             /\ SameValues(db[Len(db)], last.rows[1])

C4_Witness ==
    /\ last.op = "save_product"
    /\ Held(last.pre, last.rows[1].product_name)
    /\ RowOf(last.pre, last.rows[1].product_name).date_updated
           = last.rows[1].date_updated
    /\ RowOf(last.pre, last.rows[1].product_name).product_quantity
           # last.rows[1].product_quantity

\* C5 (as claimed): a csv row that does not convert is skipped alone:
\* _convert_csv goes on, and the rows that convert are all there, converted,
\* for _save_csv.
C5_BadRowSkippedAlone ==
    [][(pc = "convert" /\ \E i \in 1..Len(products) : RowError(products[i]) # "")
        => /\ pc' = "save"
           /\ \A i \in 1..Len(products) :
                 RowError(products[i]) = ""
                    => \E k \in 1..Len(products') :
                          products'[k] = ConvertRow(products[i])]_vars

\* C6 (as claimed): no stored product_quantity or product_price is negative.
C6_NonNegative ==
    \A i \in 1..Len(db) : db[i].product_quantity >= 0 /\ db[i].product_price >= 0

\* C7 (as claimed): every run of the backup leaves the table as it was and
\* writes backup.csv anew with one row for each row of the table.
C7_BackupWritesTable ==
    last.op = "backup"
        => /\ last.error = ""
           /\ db = last.pre
           /\ backup.exists
           /\ Len(backup.rows) = Len(db)
           /\ \A i \in 1..Len(db) :
                 backup.rows[i].product_name = db[i].product_name

\* C8: when inventory.csv holds the rows of backup.csv, _save_csv inserts
\* nothing and changes no stored quantity, price or date.
C8_ReimportChangesNothing ==
    (last.op = "save_csv" /\ backup.exists /\ csv = backup.rows)
        => db = last.pre

C8_Witness ==
    /\ last.op = "save_csv"
    /\ backup.exists
    /\ csv = backup.rows
    /\ \E i \in 1..Len(last.rows) :
          RowOf(db, last.rows[i].product_name).product_price
              # last.rows[i].product_price

\* C9: no two rows share a product_id, and a save() of any kind leaves every
\* row the table held with its product_id and its name, updates by a newer
\* candidate and rejected duplicates included.
C9_IdsStable ==
    /\ \A i, j \in 1..Len(db) : i # j => db[i].product_id # db[j].product_id
    /\ Saved =>
          /\ Len(db) >= Len(last.pre)
          /\ \A i \in 1..Len(last.pre) :
                /\ db[i].product_id = last.pre[i].product_id
                /\ db[i].product_name = last.pre[i].product_name

C9_Witness ==
    /\ Saved
    /\ Len(db) = 2
    /\ \E i \in 1..Len(last.rows) :
          /\ Held(last.pre, last.rows[i].product_name)
          /\ Earlier(RowOf(last.pre, last.rows[i].product_name).date_updated,
                     last.rows[i].date_updated)

\* the amount of a price text as the claim reads it: the first run of digits
\* and, when a "." and digits follow it, the fraction
FirstDigit(t) ==
    CHOOSE k \in 1..Len(t) : IsDigit(t[k]) /\ \A h \in 1..(k - 1) : ~IsDigit(t[h])

RunEnd(t, i) ==
    CHOOSE k \in i..Len(t) :
        (\A h \in i..k : IsDigit(t[h])) /\ (k = Len(t) \/ ~IsDigit(t[k + 1]))

HasAmount(t) == \E i \in 1..Len(t) : IsDigit(t[i])

AmountFraction(t) ==
    LET j == RunEnd(t, FirstDigit(t))
    IN  IF j + 2 <= Len(t) /\ t[j + 1] = "." /\ IsDigit(t[j + 2])
        THEN SubSeq(t, j + 2, RunEnd(t, j + 2))
        ELSE <<>>

AmountCents(t) ==
    LET i == FirstDigit(t)
        f == AmountFraction(t)
    IN  100 * DigitsToNat(SubSeq(t, i, RunEnd(t, i)))
            + (IF Len(f) = 1 THEN 10 * DigitsToNat(f) ELSE DigitsToNat(f))

\* C10 (as claimed): a price cell holding an amount with at most two decimals
\* converts to the amount in cents, whatever stands before and after it, and
\* a cell without any digit is refused.
C10_PriceIsAmountInCents ==
    [][(pc = "convert" /\ Len(products) = 1)
        => LET t == products[1].product_price
           IN  IF HasAmount(t)
               THEN Len(AmountFraction(t)) <= 2
                       => /\ pc' = "save"
                          /\ products'[1].product_price = AmountCents(t)
               ELSE pc' = "start" /\ last'.error # ""]_vars

=============================================================================
